---- MODULE Spec2Model ----
(***************************************************************************)
(* Model of the image scale / border / trim nodes of image_scale.py.       *)
(*                                                                         *)
(* The nodes are stateless: every call is a function of its inputs.  A     *)
(* behaviour of the model is one node call on fresh inputs (node = "none"  *)
(* before it), and the state after it records which node ran, the inputs   *)
(* it was given and what it returned (or the error it raised).  The image  *)
(* a TrimImageBorders call returned can be wired into a further            *)
(* TrimImageBorders call.                                                  *)
(*                                                                         *)
(* Numbers.  Python's float arithmetic is modelled by exact rational       *)
(* arithmetic on integers: a / b is kept as the pair (a, b), round() is    *)
(* round-half-to-even, int() truncates.  On the input domains used below   *)
(* the exact values and CPython's float results coincide.                  *)
(*                                                                         *)
(* Images.  An IMAGE tensor of shape (1, h, w, 3) is a record              *)
(* [h, w, px], px a function from <<y, x>> (0-based, as numpy indexes)     *)
(* to a pixel <<c0, c1, c2>>.  A tensor sample is an integer t standing    *)
(* for the real value t / (255 * Sub); a uint8 array sample is an integer  *)
(* in 0..255.                                                              *)
(***************************************************************************)
EXTENDS Integers, Sequences, FiniteSets, TLC

VARIABLES node, args, out

vars == <<node, args, out>>

(***************************************************************************)
(* Bounds of the model.                                                    *)
(***************************************************************************)
\* image.shape[1] and image.shape[2] of the images given to the scaling nodes
MaxDim == 6
\* size / target_max_size given to the scaling nodes
MaxSize == 6
\* height and width of the images given to the pixel nodes
MaxSide == 2
\* border_width given to AddImageBorder
MaxBorder == 1
\* tensor sample resolution: Sub tensor levels for each uint8 level
Sub == 2

(***************************************************************************)
(* Python helpers.                                                         *)
(***************************************************************************)
Min(a, b) == IF a <= b THEN a ELSE b

Max(a, b) == IF a >= b THEN a ELSE b

RECURSIVE GCD(_, _)
GCD(a, b) == IF b = 0 THEN a ELSE GCD(b, a % b)

\* the largest m in lo..hi with m * m <= n
RECURSIVE IsqrtIn(_, _, _)
IsqrtIn(n, lo, hi) ==
    IF lo = hi THEN lo
    ELSE LET mid == (lo + hi + 1) \div 2
         IN  IF mid * mid <= n THEN IsqrtIn(n, mid, hi) ELSE IsqrtIn(n, lo, mid - 1)

Isqrt(n) == IsqrtIn(n, 0, 46340)

\* a / divisor raises ZeroDivisionError (int or float operands alike)
PyDivFails(divisor) == divisor = 0

\* round(num / den) for num >= 0, den > 0: nearest integer, a tie goes to the
\* even neighbour (Python 3 round of a float)
PyRound(num, den) ==
    LET q == num \div den
        r == num % den
    IN  IF 2 * r < den THEN q
        ELSE IF 2 * r > den THEN q + 1
        ELSE IF q % 2 = 0 THEN q ELSE q + 1

\* int() in place of round()
RoundScaledTrunc(dim, other, total) ==
    LET g == GCD(dim, other)
    IN  Isqrt((total * (dim \div g)) \div (other \div g))

\* each side scaled to the side of the square of total pixels
RoundScaledSquare(dim, other, total) == Isqrt(total)

\* round(dim * math.sqrt(total / (dim * other))): the nearest integer to
\* sqrt(total * dim / other).  With a / b the fraction dim / other in lowest
\* terms, k is nearest iff (2k-1)^2 * b <= 4 * total * a <= (2k+1)^2 * b.
RoundScaled(dim, other, total) ==
    LET g == GCD(dim, other)
        a == dim \div g
        b == other \div g
        X == 4 * total * a
        m == Isqrt(X \div b)
    IN  IF m % 2 = 1 /\ m * m * b = X
        THEN LET lo == (m - 1) \div 2 IN IF lo % 2 = 0 THEN lo ELSE lo + 1
        ELSE (m + 1) \div 2

\* utils.make_even: the number rounded down to an even integer
make_even(n) == n - (n % 2)

(***************************************************************************)
(* Inputs of the scaling nodes.                                            *)
(***************************************************************************)
Dims == 0 .. MaxDim

\* the shapes <<width, height>> of the scenarios: 800x600 and 1000x500
ScenarioShapes == {<<800, 600>>, <<1000, 500>>}

\* <<image.shape[2], image.shape[1]>> of the image input
Shapes == (Dims \X Dims) \cup ScenarioShapes

Sizes == (0 .. MaxSize) \cup {256}

\* sd_model_type: the four table keys and a name that is not in the table
ModelTypes == {"sd15", "sd15+", "sdxl", "sdxl+", "other"}

\* no node has been called yet
Idle == node = "none"

NoError == "none"

ZeroDivisionError == "ZeroDivisionError"

\* an error raised by the external resampler, given a zero target size
ResampleError == "ResampleError"

(***************************************************************************)
(* ImageScalerForSDModels                                                  *)
(***************************************************************************)
\* the default of sd_dimensions.get(sd_model_type, (1024, 1024))
sd_default == <<1024, 1024>>

sd_dimensions ==
    ("sd15" :> <<512, 512>>) @@ ("sd15+" :> <<512, 768>>) @@
    ("sdxl" :> <<1024, 1024>>) @@ ("sdxl+" :> <<1024, 1280>>)

\* the fallback taken to be the largest entry of the table
sd_target_largest(sd_model_type) ==
    IF sd_model_type \in DOMAIN sd_dimensions
    THEN sd_dimensions[sd_model_type]
    ELSE sd_dimensions["sdxl+"]

\* sd_dimensions.get(sd_model_type, (1024, 1024))
sd_target(sd_model_type) ==
    IF sd_model_type \in DOMAIN sd_dimensions
    THEN sd_dimensions[sd_model_type]
    ELSE sd_default

\* BaseImageScaler.scale_image: the external resampler stretches image and mask
\* to exactly (height, width).  What it does with a zero target size is not
\* decided by this code: it may return an empty image or raise.
scale_image_errors(width, height) ==
    IF width = 0 \/ height = 0 THEN {NoError, ResampleError} ELSE {NoError}

\* BaseImageScaler.prepare_result, after scale_image
prepare_result(width, height, err) ==
    IF err = NoError
    THEN [err |-> NoError, width |-> width, height |-> height,
          min_dimension |-> Min(width, height),
          image_hw |-> <<height, width>>, mask_hw |-> <<height, width>>]
    ELSE [err |-> err]

ImageScalerForSDModels(shape, sd_model_type) ==
    LET w == shape[1]
        h == shape[2]
        target == sd_target(sd_model_type)
        total_pixels == target[1] * target[2]
    IN  /\ Idle
        /\ node' = "ImageScalerForSDModels"
        \* total_pixels is the local of line 118, kept with the inputs
        /\ args' = [width |-> w, height |-> h, sd_model_type |-> sd_model_type,
                    total_pixels |-> total_pixels]
        /\ IF PyDivFails(w * h)
           THEN \* total_pixels / (image.shape[2] * image.shape[1])
                out' = [err |-> ZeroDivisionError]
           ELSE LET width == RoundScaled(w, h, total_pixels)
                    height == RoundScaled(h, w, total_pixels)
                IN  \E e \in scale_image_errors(width, height) :
                        out' = prepare_result(width, height, e)

(***************************************************************************)
(* ImageScaleBySpecifiedSide                                               *)
(***************************************************************************)
ImageScaleBySpecifiedSide(shape, size, shorter) ==
    LET w == shape[1]
        h == shape[2]
        reference_side_length == IF shorter THEN Min(w, h) ELSE Max(w, h)
    IN  /\ Idle
        /\ node' = "ImageScaleBySpecifiedSide"
        /\ args' = [width |-> w, height |-> h, size |-> size, shorter |-> shorter]
        /\ IF PyDivFails(size)
           THEN \* reference_side_length / size
                out' = [err |-> ZeroDivisionError]
           ELSE IF PyDivFails(reference_side_length)
           THEN \* scale_by is 0.0: image.shape[2] / scale_by
                out' = [err |-> ZeroDivisionError]
           ELSE \* x / (reference / size) = x * size / reference
                LET width == make_even(PyRound(w * size, reference_side_length))
                    height == make_even(PyRound(h * size, reference_side_length))
                IN  \E e \in scale_image_errors(width, height) :
                        out' = prepare_result(width, height, e)

(***************************************************************************)
(* ComputeImageScaleRatio                                                  *)
(***************************************************************************)
\* the ratio taken the other way round, as ImageScaleBySpecifiedSide takes it:
\* scale_by = max(width, height) / target_max_size, each side divided by it
ComputeImageScaleRatioByScale(shape, target_max_size) ==
    LET width == shape[1]
        height == shape[2]
        longest == Max(width, height)
    IN  /\ Idle
        /\ node' = "ComputeImageScaleRatio"
        /\ args' = [width |-> width, height |-> height,
                    target_max_size |-> target_max_size]
        /\ IF PyDivFails(target_max_size) \/ PyDivFails(longest)
           THEN out' = [err |-> ZeroDivisionError]
           ELSE LET g == GCD(target_max_size, longest)
                IN  out' = [err |-> NoError,
                            rescale_ratio |-> <<target_max_size \div g, longest \div g>>,
                            width |-> make_even(PyRound(width * target_max_size, longest)),
                            height |-> make_even(PyRound(height * target_max_size, longest))]

ComputeImageScaleRatio(shape, target_max_size) ==
    LET width == shape[1]
        height == shape[2]
        longest == Max(width, height)
    IN  /\ Idle
        /\ node' = "ComputeImageScaleRatio"
        /\ args' = [width |-> width, height |-> height,
                    target_max_size |-> target_max_size]
        /\ IF PyDivFails(longest)
           THEN \* target_max_size / max(width, height)
                out' = [err |-> ZeroDivisionError]
           ELSE LET g == GCD(target_max_size, longest)
                IN  out' = [err |-> NoError,
                            rescale_ratio |-> <<target_max_size \div g, longest \div g>>,
                            width |-> make_even(PyRound(width * target_max_size, longest)),
                            height |-> make_even(PyRound(height * target_max_size, longest))]

(***************************************************************************)
(* Images, arrays and the conversions between them.                        *)
(***************************************************************************)
\* the pixel positions <<y, x>> of an array of h rows and w columns
Pos(h, w) == (0 .. h - 1) \X (0 .. w - 1)

\* astype(np.uint8) of 255.0 * x, clipped to 0..255, x = t / (255 * Sub)
ToUint8(t) == Max(0, Min(255, t \div Sub))

\* x / 255.0 of a uint8 sample, in tensor units
FromUint8(n) == n * Sub

\* utils.image_convert.tensor2np: the [0, 1] tensor as a uint8 array
tensor2np(image) ==
    [h |-> image.h, w |-> image.w,
     px |-> [p \in Pos(image.h, image.w) |->
                <<ToUint8(image.px[p][1]), ToUint8(image.px[p][2]),
                  ToUint8(image.px[p][3])>>]]

\* utils.image_convert.np2tensor: the uint8 array as a [0, 1] tensor
np2tensor(arr) ==
    [h |-> arr.h, w |-> arr.w,
     px |-> [p \in Pos(arr.h, arr.w) |->
                <<FromUint8(arr.px[p][1]), FromUint8(arr.px[p][2]),
                  FromUint8(arr.px[p][3])>>]]

\* tensor pixels of the input images: black, and a bright orange whose green
\* sample lies between two uint8 levels
Black == <<0, 0, 0>>

Orange == <<255 * Sub, 128 * Sub + 1, 0>>

Palette == {Black, Orange}

ImagesOf(h, w) == {[h |-> h, w |-> w, px |-> f] : f \in [Pos(h, w) -> Palette]}

\* the IMAGE inputs of the pixel nodes
Images == UNION {ImagesOf(h, w) : h \in 1 .. MaxSide, w \in 1 .. MaxSide}

(***************************************************************************)
(* TrimImageBorders                                                        *)
(***************************************************************************)
Thresholds == {0, 10, 200}

\* Image.convert('L') of an RGB pixel: ITU-R 601-2 luma in 16-bit fixed point
Luminance(p) == (19595 * p[1] + 38470 * p[2] + 7471 * p[3] + 32768) \div 65536

\* gray_image.point(lambda x: 255 if x > threshold else 0), as the set of the
\* positions set to 255
binary_image(img, threshold) ==
    {p \in Pos(img.h, img.w) : Luminance(img.px[p]) > threshold}

SetMin(S) == CHOOSE m \in S : \A n \in S : m <= n

SetMax(S) == CHOOSE m \in S : \A n \in S : m >= n

NoBox == <<>>

getbbox_inclusive(lit) ==
    IF lit = {} THEN NoBox
    ELSE LET ys == {p[1] : p \in lit}
             xs == {p[2] : p \in lit}
         IN  <<SetMin(xs), SetMin(ys), SetMax(xs), SetMax(ys)>>

\* Image.getbbox: <<left, upper, right, lower>> of the non-zero region, right
\* and lower exclusive; NoBox (None) when the image is all zero
getbbox(lit) ==
    IF lit = {} THEN NoBox
    ELSE LET ys == {p[1] : p \in lit}
             xs == {p[2] : p \in lit}
         IN  <<SetMin(xs), SetMin(ys), SetMax(xs) + 1, SetMax(ys) + 1>>

\* Image.crop(bbox)
crop(img, bbox) ==
    LET left == bbox[1]
        upper == bbox[2]
        ch == bbox[4] - bbox[2]
        cw == bbox[3] - bbox[1]
    IN  [h |-> ch, w |-> cw,
         px |-> [p \in Pos(ch, cw) |-> img.px[<<p[1] + upper, p[2] + left>>]]]

\* TrimImageBorders.run
run(image, threshold) ==
    LET img == tensor2np(image)
        bbox == getbbox(binary_image(img, threshold))
        cropped_image == IF bbox # NoBox THEN crop(img, bbox) ELSE img
    IN  np2tensor(cropped_image)

\* the node called on a fresh image
TrimImageBorders(image, threshold) ==
    /\ Idle
    /\ node' = "TrimImageBorders"
    /\ args' = [image |-> image, threshold |-> threshold, wired |-> FALSE,
                prev |-> [h |-> image.h, w |-> image.w, threshold |-> threshold]]
    /\ out' = [err |-> NoError, image |-> run(image, threshold)]

\* the node called on the image the previous TrimImageBorders call returned
TrimImageBordersAgain(threshold) ==
    /\ node = "TrimImageBorders"
    /\ node' = "TrimImageBorders"
    \* prev: the size of the previous call's input and its threshold
    /\ args' = [image |-> out.image, threshold |-> threshold, wired |-> TRUE,
                prev |-> [h |-> args.image.h, w |-> args.image.w,
                          threshold |-> args.threshold]]
    /\ out' = [err |-> NoError, image |-> run(out.image, threshold)]

(***************************************************************************)
(* AddImageBorder                                                          *)
(***************************************************************************)
BorderWidths == 0 .. MaxBorder

\* border_ratio as <<numerator, denominator>>: 0, 0.5, 0.75 and 1.0, floats
\* that are exact in binary, so that min(h, w) * border_ratio is exact too
Ratios == {<<0, 1>>, <<1, 2>>, <<3, 4>>, <<1, 1>>}

\* <<r, g, b>>
Colors == {<<255, 0, 0>>, <<10, 20, 30>>, <<0, 0, 0>>}

final_border_width_min(h, w, border_width, border_ratio) ==
    Min(border_width, (Min(h, w) * border_ratio[1]) \div border_ratio[2])

\* ratio_width = int(min(h, w) * border_ratio); max(border_width, ratio_width)
final_border_width(h, w, border_width, border_ratio) ==
    LET ratio_width == (Min(h, w) * border_ratio[1]) \div border_ratio[2]
    IN  Max(border_width, ratio_width)

\* the slice [fbw : fbw + h, fbw : fbw + w]
InPasted(p, h, w, fbw) ==
    /\ fbw <= p[1] /\ p[1] < fbw + h
    /\ fbw <= p[2] /\ p[2] < fbw + w

bordered_img_corner(img_np, fbw, r, g, b) ==
    LET new_h == img_np.h + 2 * fbw
        new_w == img_np.w + 2 * fbw
    IN  [h |-> new_h, w |-> new_w,
         px |-> [p \in Pos(new_h, new_w) |->
                    IF p[1] < img_np.h /\ p[2] < img_np.w
                    THEN img_np.px[p]
                    ELSE <<b, g, r>>]]

\* np.full((new_h, new_w, c), [b, g, r]) with img_np pasted at the centre
bordered_img(img_np, fbw, r, g, b) ==
    LET new_h == img_np.h + 2 * fbw
        new_w == img_np.w + 2 * fbw
    IN  [h |-> new_h, w |-> new_w,
         px |-> [p \in Pos(new_h, new_w) |->
                    IF InPasted(p, img_np.h, img_np.w, fbw)
                    THEN img_np.px[<<p[1] - fbw, p[2] - fbw>>]
                    ELSE <<b, g, r>>]]

border_mask_narrow(h, w, fbw) ==
    LET new_h == h + 2 * fbw
        new_w == w + 2 * fbw
    IN  [h |-> new_h, w |-> new_w,
         px |-> [p \in Pos(new_h, new_w) |->
                    IF InPasted(p, h - 1, w - 1, fbw) THEN 0 ELSE 1]]

\* np.ones((new_h, new_w)) with the pasted region set to 0
border_mask(h, w, fbw) ==
    LET new_h == h + 2 * fbw
        new_w == w + 2 * fbw
    IN  [h |-> new_h, w |-> new_w,
         px |-> [p \in Pos(new_h, new_w) |->
                    IF InPasted(p, h, w, fbw) THEN 0 ELSE 1]]

\* AddImageBorder.add_border
AddImageBorder(image, border_width, border_ratio, color) ==
    LET r == color[1]
        g == color[2]
        b == color[3]
        img_np == tensor2np(image)
        h == img_np.h
        w == img_np.w
        fbw == final_border_width(h, w, border_width, border_ratio)
    IN  /\ Idle
        /\ node' = "AddImageBorder"
        /\ args' = [image |-> image, border_width |-> border_width,
                    border_ratio |-> border_ratio, r |-> r, g |-> g, b |-> b]
        /\ out' = [err |-> NoError,
                   image |-> np2tensor(bordered_img(img_np, fbw, r, g, b)),
                   mask |-> border_mask(h, w, fbw)]

(***************************************************************************)
(* The specification.                                                      *)
(***************************************************************************)
Init ==
    /\ Idle
    /\ args = [width |-> 0]
    /\ out = [err |-> NoError]

Next ==
    \/ Idle /\ \E shape \in Shapes, t \in Sizes : ComputeImageScaleRatio(shape, t)
    \/ Idle /\ \E shape \in Shapes, t \in ModelTypes :
                  ImageScalerForSDModels(shape, t)
    \/ Idle /\ \E shape \in Shapes, size \in Sizes, shorter \in BOOLEAN :
                  ImageScaleBySpecifiedSide(shape, size, shorter)
    \/ Idle /\ \E image \in Images, threshold \in Thresholds :
                  TrimImageBorders(image, threshold)
    \/ \E threshold \in Thresholds : TrimImageBordersAgain(threshold)
    \/ Idle /\ \E image \in Images, border_width \in BorderWidths,
                 border_ratio \in Ratios, color \in Colors :
                  AddImageBorder(image, border_width, border_ratio, color)

Spec == Init /\ [][Next]_vars

(***************************************************************************)
(* Properties.                                                             *)
(***************************************************************************)
Abs(x) == IF x < 0 THEN -x ELSE x

ScalingNodes ==
    {"ImageScalerForSDModels", "ImageScaleBySpecifiedSide", "ComputeImageScaleRatio"}

Returned == out.err = NoError

\* C1: for every image of positive width and height and every size policy,
\* the width and height a scaling node returns are positive, and in
\* reference-side and max-dimension mode both are even.
C1_DimsPositiveAndEven ==
    (node \in ScalingNodes /\ args.width > 0 /\ args.height > 0 /\ Returned) =>
        /\ out.width > 0
        /\ out.height > 0
        /\ (node # "ImageScalerForSDModels" =>
                out.width % 2 = 0 /\ out.height % 2 = 0)

\* the largest target_w * target_h of the table
LargestBudget ==
    SetMax({sd_dimensions[k][1] * sd_dimensions[k][2] : k \in DOMAIN sd_dimensions})

UnknownPreset ==
    node = "ImageScalerForSDModels" /\ args.sd_model_type \notin DOMAIN sd_dimensions

\* C2 as stated: a preset that is not in the table uses the pixel budget of
\* the largest preset of the table.
C2_UnknownPresetUsesLargest ==
    UnknownPreset => args.total_pixels = LargestBudget

\* C2 as amended: a preset that is not in the table does not fail but uses the
\* pixel budget of the "sdxl" entry, 1024 * 1024, which is smaller than the
\* largest budget of the table (that of "sdxl+").
C2_UnknownPresetUsesSdxl ==
    UnknownPreset =>
        /\ args.total_pixels = sd_dimensions["sdxl"][1] * sd_dimensions["sdxl"][2]
        /\ args.total_pixels = 1024 * 1024
        /\ args.total_pixels < LargestBudget
        /\ (args.width > 0 /\ args.height > 0 => Returned)

C2_Witness ==
    /\ UnknownPreset
    /\ Returned
    /\ args.width = 3 /\ args.height = 2

Bordered == node = "AddImageBorder"

\* the border width the call used, read off the returned image
UsedBorder == (out.image.h - args.image.h) \div 2

\* min(h, w) * border_ratio exceeds border_width and is not a whole number
FractionalRatioWidth ==
    LET m == Min(args.image.h, args.image.w)
    IN  /\ (m * args.border_ratio[1]) % args.border_ratio[2] # 0
        /\ m * args.border_ratio[1] > args.border_width * args.border_ratio[2]

\* C3 as stated: effective_width = max(border_width, border_ratio * min(h, w))
\* and the returned image is (h + 2 * effective_width) by
\* (w + 2 * effective_width).  Stated times the ratio's denominator.
C3_BorderIsMaxOfWidthAndRatio ==
    Bordered =>
        LET den == args.border_ratio[2]
            eff_den == Max(args.border_width * den,
                           args.border_ratio[1] * Min(args.image.h, args.image.w))
        IN  /\ den * out.image.h = den * args.image.h + 2 * eff_den
            /\ den * out.image.w = den * args.image.w + 2 * eff_den

\* C3 as amended: effective_width = max(border_width,
\* floor(border_ratio * min(h, w))), the ratio part truncated to an integer,
\* and the returned image is (h + 2 * effective_width) by
\* (w + 2 * effective_width).
C3_BorderIsMaxOfWidthAndTruncatedRatio ==
    Bordered =>
        LET m == Min(args.image.h, args.image.w)
            truncated == CHOOSE k \in 0 .. m :
                             /\ k * args.border_ratio[2] <= m * args.border_ratio[1]
                             /\ (k + 1) * args.border_ratio[2] > m * args.border_ratio[1]
            eff == Max(args.border_width, truncated)
        IN  /\ out.image.h = args.image.h + 2 * eff
            /\ out.image.w = args.image.w + 2 * eff

C3_Witness ==
    /\ Bordered
    /\ FractionalRatioWidth
    /\ out.image.h > args.image.h

\* C4: the returned mask has the height and width of the returned image, is 0
\* on the centred region where the original image was pasted and 1 on every
\* other pixel.
C4_MaskCoversBorder ==
    Bordered =>
        LET k == UsedBorder
            h == args.image.h
            w == args.image.w
            original == tensor2np(args.image)
        IN  /\ out.mask.h = out.image.h
            /\ out.mask.w = out.image.w
            /\ DOMAIN out.mask.px = DOMAIN out.image.px
            /\ \A p \in DOMAIN out.mask.px :
                   IF k <= p[1] /\ p[1] < k + h /\ k <= p[2] /\ p[2] < k + w
                   THEN /\ out.mask.px[p] = 0
                        /\ tensor2np(out.image).px[p] =
                               original.px[<<p[1] - k, p[2] - k>>]
                   ELSE out.mask.px[p] = 1

\* the scenario of C4 at the model's scale: a 2x2 image, border_width 1,
\* border_ratio 0, gives a 4x4 canvas
C4_Witness ==
    /\ Bordered
    /\ args.image.h = 2 /\ args.image.w = 2
    /\ args.border_width = 1 /\ args.border_ratio = <<0, 1>>
    /\ args.r = 255 /\ args.g = 0 /\ args.b = 0
    /\ out.mask.h = 4 /\ out.mask.w = 4
    /\ out.mask.px[<<0, 0>>] = 1 /\ out.mask.px[<<1, 1>>] = 0
    /\ out.mask.px[<<2, 2>>] = 0 /\ out.mask.px[<<3, 2>>] = 1

\* C5: with an effective border width > 0, every pixel of the returned image
\* outside the pasted region has the given colour: first channel r, second g,
\* third b, the channel order of the pasted image.
C5_BorderHasGivenColor ==
    (Bordered /\ UsedBorder > 0) =>
        \A p \in DOMAIN out.image.px :
            out.mask.px[p] = 1 =>
                out.image.px[p] =
                    <<FromUint8(args.r), FromUint8(args.g), FromUint8(args.b)>>

\* rows and columns k..(h - k - 1) of an image: k removed from each side
CropBack(image, k) ==
    [h |-> image.h - 2 * k, w |-> image.w - 2 * k,
     px |-> [p \in Pos(image.h - 2 * k, image.w - 2 * k) |->
                image.px[<<p[1] + k, p[2] + k>>]]]

\* C6 as stated: removing effective_width rows and columns from each side of
\* the returned image recovers the original image exactly.
C6_CropBackRecoversOriginal ==
    Bordered => CropBack(out.image, UsedBorder) = args.image

\* C6 as amended: removing effective_width rows and columns from each side of
\* the returned image recovers an image of the original size whose samples are
\* the original samples after the 8-bit conversion (tensor2np, then
\* np2tensor); a sample that is not a multiple of 1/255 is not recovered.
C6_CropBackRecoversQuantized ==
    Bordered =>
        LET back == CropBack(out.image, UsedBorder)
        IN  /\ back.h = args.image.h
            /\ back.w = args.image.w
            /\ back = np2tensor(tensor2np(args.image))
            /\ \A p \in DOMAIN back.px : \A c \in 1 .. 3 :
                   (back.px[p][c] = args.image.px[p][c]) <=>
                       (args.image.px[p][c] % Sub = 0)

C6_Witness ==
    /\ Bordered
    /\ UsedBorder > 0
    /\ \E p \in DOMAIN args.image.px : args.image.px[p] = Orange
    /\ \E p \in DOMAIN args.image.px : args.image.px[p] = Black

Trimmed == node = "TrimImageBorders"

\* no pixel of the call's input has a luminance above the threshold
NothingAboveThreshold ==
    binary_image(tensor2np(args.image), args.threshold) = {}

SdScaled ==
    /\ node = "ImageScalerForSDModels"
    /\ args.width > 0 /\ args.height > 0
    /\ Returned

\* k is a nearest integer to sqrt(total * dim / other): with a / b = dim / other
\* in lowest terms, (2k - 1)^2 * b <= 4 * total * a <= (2k + 1)^2 * b
NearestToScaled(k, dim, other, total) ==
    LET g == GCD(dim, other)
        a == dim \div g
        b == other \div g
    IN  /\ k >= 0
        /\ (k > 0 => (2 * k - 1) * (2 * k - 1) * b <= 4 * total * a)
        /\ 4 * total * a <= (2 * k + 1) * (2 * k + 1) * b

\* C8: in megapixel-budget mode width and height are the nearest integers to
\* current_w * scale and current_h * scale for the one scale
\* sqrt(total_pixels / (current_w * current_h)), hence
\* |width * current_h - height * current_w| <= (current_w + current_h) / 2.
C8_AspectRatioKept ==
    SdScaled =>
        /\ NearestToScaled(out.width, args.width, args.height, args.total_pixels)
        /\ NearestToScaled(out.height, args.height, args.width, args.total_pixels)
        /\ 2 * Abs(out.width * args.height - out.height * args.width)
               <= args.width + args.height

C8_Witness ==
    /\ SdScaled
    /\ args.width = 5 /\ args.height = 3
    /\ args.sd_model_type = "sd15+"
    /\ out.width # out.height

Scenario800x600 ==
    /\ node = "ImageScalerForSDModels"
    /\ args.width = 800 /\ args.height = 600
    /\ args.sd_model_type = "sdxl"

\* C9 as stated: an 800x600 image with preset "sdxl" returns width 1182 and
\* height 886.
C9_Scenario886 ==
    Scenario800x600 => Returned /\ out.width = 1182 /\ out.height = 886

\* C9 as amended: an 800x600 image with preset "sdxl" returns width 1182 and
\* height 887 (600 * 1.478017... = 886.81, rounded to nearest).
C9_Scenario887 ==
    Scenario800x600 => Returned /\ out.width = 1182 /\ out.height = 887

C9_Witness == Scenario800x600 /\ Returned /\ out.min_dimension = 887

\* the size the call asked for, where the node has one
RequestedZero ==
    \/ node = "ImageScaleBySpecifiedSide" /\ args.size = 0
    \/ node = "ComputeImageScaleRatio" /\ args.target_max_size = 0

====
